---- MODULE Spec2Model ----
(***************************************************************************)
(* A model of src/src/AudioTranscriptionAPI.py: a Flask gateway in front   *)
(* of an S3 bucket.  Strings that the code inspects character by character *)
(* (the Authorization header, tokens, identities, job identifiers, object  *)
(* keys) are sequences of one-character strings; fixed messages and status *)
(* words are TLA+ strings.                                                 *)
(***************************************************************************)
EXTENDS Integers, Sequences, FiniteSets, TLC

VARIABLES
    API_KEYS,                 \* the token -> identity table (module global)
    store,                    \* the bucket: object key -> object
    presigned,                \* presigned PUT URLs handed out to clients
    pc,                       \* per request slot: idle / received / authed / done
    request,                  \* per slot: route, headers and (once read) args
    authenticated_username,   \* per slot: request.authenticated_username
    response,                 \* per slot: the response of the finished request
    s3_calls,                 \* per slot: the storage calls the request made
    served                    \* number of requests received so far

vars == << API_KEYS, store, presigned, pc, request, authenticated_username,
           response, s3_calls, served >>

----------------------------------------------------------------------------
(* Bounds of the model *)

MaxRequests == 2

Slots == {1, 2}

----------------------------------------------------------------------------
(* Python values and string operations *)

\* Python's None, where a str is expected: no real string is this sequence.
None == << "<None>" >>

\* `not x` for x a str or None.
Falsy(x) == x = None \/ x = << >>

\* str.startswith
startswith(s, p) == Len(s) >= Len(p) /\ SubSeq(s, 1, Len(p)) = p

\* str.find: the first index (1-based) at which sep occurs in s, 0 if none.
Find(s, sep) ==
    LET at == { j \in 1..(Len(s) - Len(sep) + 1) : SubSeq(s, j, j + Len(sep) - 1) = sep }
    IN  IF at = {} THEN 0 ELSE CHOOSE j \in at : \A k \in at : j <= k

\* str.split(sep): the pieces between the non-overlapping occurrences of sep,
\* scanned from the left.
RECURSIVE split(_, _)
split(s, sep) ==
    LET j == Find(s, sep)
    IN  IF j = 0 THEN << s >>
        ELSE << SubSeq(s, 1, j - 1) >> \o split(SubSeq(s, j + Len(sep), Len(s)), sep)

\* dict.get(key): the value, or None.
DictGet(d, k) == IF k \in DOMAIN d THEN d[k] ELSE None

----------------------------------------------------------------------------
(* Configuration *)

S3_BUCKET_NAME == "your-audio-bucket-name"
PRESIGNED_URL_EXPIRATION == 900

Bearer == <<"B","e","a","r","e","r"," ">>
USER1_API_KEY == <<"t","e","s","t","_","k","e","y","_","u","s","e","r","1","_","a","b","c">>
USER2_API_KEY == <<"t","e","s","t","_","k","e","y","_","u","s","e","r","2","_","d","e","f">>
user1 == <<"u","s","e","r","1">>
user2 == <<"u","s","e","r","2">>

\* The table as built at import time.
API_KEYS_startup ==
    [ k \in {USER1_API_KEY, USER2_API_KEY} |-> IF k = USER1_API_KEY THEN user1 ELSE user2 ]

Identities == { API_KEYS_startup[k] : k \in DOMAIN API_KEYS_startup }

----------------------------------------------------------------------------
(* Responses *)

\* The five @app.errorhandler functions: abort(code, description) ends the
\* request with a JSON body {"error": description}; 404 and 500 fall back to a
\* fixed text when the description is empty.  (not_found's branch for a dict
\* description is never taken: no handler aborts with 404.)
errorhandler(code, description) ==
    [ status |-> code,
      body |-> [ error |-> IF description = << >>
                           THEN (IF code = 404 THEN << "Resource not found." >>
                                 ELSE << "Internal Server Error" >>)
                           ELSE description ],
      unhandled |-> FALSE ]

\* A view function's `return jsonify(body), status`.
jsonify(body, status) == [ status |-> status, body |-> body, unhandled |-> FALSE ]

NoResponse == [ status |-> 0, body |-> << >>, unhandled |-> FALSE ]

----------------------------------------------------------------------------
(* Authentication *)

\* The body of require_api_key's decorated_function up to the call of f:
\* either abort(401, ...) or the identity to attach to the request.
require_api_key(api_key, table) ==
    IF Falsy(api_key) \/ ~startswith(api_key, Bearer)
    THEN [ ok |-> FALSE, username |-> None,
           description |-> << "Authorization header missing or invalid (Bearer token required)." >> ]
    ELSE LET token == split(api_key, Bearer)[2]
             username == DictGet(table, token)
         IN  IF Falsy(username)
             THEN [ ok |-> FALSE, username |-> None,
                    description |-> << "Invalid API Key." >> ]
             ELSE [ ok |-> TRUE, username |-> username, description |-> << >> ]

\* validate_username without the comparison with the caller's parameter.
validate_username_unchecked(provided_username, authenticated) ==
    Falsy(authenticated)

\* validate_username: TRUE when it aborts with 403.
validate_username(provided_username, authenticated) ==
    Falsy(authenticated) \/ provided_username # authenticated

----------------------------------------------------------------------------
(* Object keys and the size text *)

uuid_a == <<"a","1">>
uuid_b == <<"b","2">>
\* The values uuid.uuid4() can return (the model keeps two of the 2^122).
UUIDs == { uuid_a, uuid_b }

\* f"uploads/{username}/{transcription_id}/audio.mp3"
UploadKey(username, transcription_id) ==
    <<"u","p","l","o","a","d","s","/">> \o username \o <<"/">> \o transcription_id
        \o <<"/","a","u","d","i","o",".","m","p","3">>

\* f"transcriptions/{username}/{transcription_id}/transcript.json"
TranscriptKey(username, transcription_id) ==
    <<"t","r","a","n","s","c","r","i","p","t","i","o","n","s","/">> \o username \o <<"/">>
        \o transcription_id \o <<"/","t","r","a","n","s","c","r","i","p","t",".","j","s","o","n">>

DigitChar(d) == << "0","1","2","3","4","5","6","7","8","9" >>[d + 1]

RECURSIVE Decimal(_)
Decimal(n) == IF n < 10 THEN << DigitChar(n) >> ELSE Decimal(n \div 10) \o << DigitChar(n % 10) >>

\* f"{file_size_bytes / (1024 * 1024):.2f}MB" if file_size_bytes else "0MB":
\* the quotient is exact in binary, and .2f rounds it half to even.
file_size_mb(file_size_bytes) ==
    IF file_size_bytes = 0 THEN <<"0","M","B">>
    ELSE LET q == (file_size_bytes * 100) \div (1024 * 1024)
             rem == (file_size_bytes * 100) % (1024 * 1024)
             h == IF 2 * rem > 1024 * 1024 THEN q + 1
                  ELSE IF 2 * rem = 1024 * 1024 THEN q + (q % 2)
                  ELSE q
         IN  Decimal(h \div 100) \o <<".">> \o << DigitChar((h % 100) \div 10), DigitChar(h % 10) >>
                 \o <<"M","B">>

----------------------------------------------------------------------------
(* The object store, as s3_client sees it *)

\* A botocore ClientError carrying e.response, and any other exception.
ClientError(resp) == [ kind |-> "ClientError", response |-> resp ]
OtherException == [ kind |-> "Exception" ]

\* Faults a storage call can end in whatever the bucket holds: a refusal with
\* a complete error document, error documents that lack 'Message' or 'Code'
\* (the parser copies whatever elements the endpoint's <Error> body has), and
\* an exception that is no ClientError (no credentials, no connection).
Faults ==
    { ClientError([ Error |-> [ Code |-> "AccessDenied", Message |-> "Access Denied" ] ]),
      ClientError([ Error |-> [ Code |-> "AccessDenied" ] ]),
      ClientError([ Error |-> [ Message |-> "Access Denied" ] ]),
      OtherException }

\* s3_client.head_object(Bucket, Key)
head_object(st, key) ==
    ( IF key \in DOMAIN st
      THEN { [ kind |-> "ok", ContentLength |-> st[key].ContentLength ] }
      ELSE { ClientError([ Error |-> [ Code |-> "404", Message |-> "Not Found" ] ]),
             ClientError([ Error |-> [ Code |-> "NoSuchKey",
                                         Message |-> "The specified key does not exist." ] ]) } )
    \cup Faults

\* s3_client.get_object(Bucket, Key)
get_object(st, key) ==
    ( IF key \in DOMAIN st
      THEN { [ kind |-> "ok", Body |-> st[key].Body ] }
      ELSE { ClientError([ Error |-> [ Code |-> "NoSuchKey",
                                         Message |-> "The specified key does not exist." ] ]) } )
    \cup Faults

\* s3_client.generate_presigned_url('put_object', Params, ExpiresIn, HttpMethod)
s3_generate_presigned_url(key) ==
    { [ kind |-> "ok",
        url |-> [ Bucket |-> S3_BUCKET_NAME, Key |-> key,
                  ExpiresIn |-> PRESIGNED_URL_EXPIRATION, HttpMethod |-> "PUT" ] ],
      ClientError([ Error |-> [ Code |-> "AccessDenied", Message |-> "Access Denied" ] ]),
      OtherException }

\* A storage call that is tried again when it fails.
s3_call_retry(op, key, outcome) ==
    IF outcome.kind = "ok"
    THEN << [ op |-> op, Key |-> key, outcome |-> outcome ] >>
    ELSE << [ op |-> op, Key |-> key, outcome |-> outcome ],
            [ op |-> op, Key |-> key, outcome |-> outcome ] >>

\* What one storage call of a handler leaves in the request's call log: the
\* call is made once, whatever its outcome.
s3_call(op, key, outcome) == << [ op |-> op, Key |-> key, outcome |-> outcome ] >>

----------------------------------------------------------------------------
(* Decoding and parsing an object's content *)

DecodeError == << "<error>" >>

\* bytes.decode('utf-8'), exact on byte strings whose bytes are ASCII or 0xFF
\* (0xFF never occurs in UTF-8): the text, or DecodeError for UnicodeDecodeError.
Chr(b) ==
    IF b \in 48..57 THEN DigitChar(b - 48)
    ELSE IF b = 91 THEN "[" ELSE IF b = 93 THEN "]" ELSE IF b = 44 THEN ","
    ELSE IF b = 123 THEN "{" ELSE "?"

decode_utf8(bytes) ==
    IF \E i \in 1..Len(bytes) : bytes[i] >= 128 THEN DecodeError
    ELSE [ i \in 1..Len(bytes) |-> Chr(bytes[i]) ]

IsDigit(c) == c \in { "0","1","2","3","4","5","6","7","8","9" }
DigitValue(c) == CHOOSE d \in 0..9 : DigitChar(d) = c

\* json.loads, exact on texts over the characters [ ] , { and the digits
\* that are not a bare number: an array of one-digit numbers is a document,
\* any other such text raises JSONDecodeError.
json_loads(text) ==
    IF Len(text) < 2 \/ text[1] # "[" \/ text[Len(text)] # "]"
    THEN [ ok |-> FALSE, data |-> << >> ]
    ELSE LET inner == SubSeq(text, 2, Len(text) - 1)
             parts == IF inner = << >> THEN << >> ELSE split(inner, << "," >>)
         IN  IF \A i \in 1..Len(parts) : Len(parts[i]) = 1 /\ IsDigit(parts[i][1])
             THEN [ ok |-> TRUE, data |-> [ i \in 1..Len(parts) |-> DigitValue(parts[i][1]) ] ]
             ELSE [ ok |-> FALSE, data |-> << >> ]

----------------------------------------------------------------------------
(* What the handlers answer *)

\* An exception that leaves the view function: Flask wraps it in an
\* InternalServerError and hands it to the handler registered for 500, whose
\* body carries that error's stock description.  (With debug=True the
\* exception is re-raised to the server instead, which also answers 500.)
unhandled_exception ==
    [ status |-> 500,
      body |-> [ error |-> << "The server encountered an internal error and was unable to complete your request." >> ],
      unhandled |-> TRUE ]

\* generate_presigned_url from the storage call on.
presigned_url_result(transcription_id, outcome) ==
    IF outcome.kind = "ok"
    THEN jsonify([ presigned_url |-> outcome.url, transcription_id |-> transcription_id ], 200)
    ELSE IF outcome.kind = "ClientError"
    THEN errorhandler(500, << "Could not generate presigned URL." >>)
    ELSE errorhandler(500, << "An unexpected server error occurred." >>)

\* validate_upload without the call of validate_username.
validate_upload_checks_no_identity(username, transcription_id, authenticated) ==
    IF Falsy(username) \/ Falsy(transcription_id) THEN 400 ELSE 0

\* validate_upload's checks before the storage call: 0 to go on, or the
\* status it aborts with.
validate_upload_checks(username, transcription_id, authenticated) ==
    IF Falsy(username) \/ Falsy(transcription_id) THEN 400
    ELSE IF validate_username(username, authenticated) THEN 403
    ELSE 0

\* validate_upload taking only 'NoSuchKey', not '404', for an absent object.
validate_upload_result_nosuchkey_only(transcription_id, s3_object_key, outcome) ==
    IF outcome.kind = "ok"
    THEN jsonify([ transcription_id |-> transcription_id, status |-> "uploaded",
                   file_size |-> file_size_mb(outcome.ContentLength),
                   s3_key |-> s3_object_key ], 200)
    ELSE IF outcome.kind = "ClientError"
    THEN LET Error == outcome.response.Error
         IN  IF "Code" \notin DOMAIN Error THEN unhandled_exception
             ELSE IF Error.Code = "NoSuchKey"
             THEN jsonify([ transcription_id |-> transcription_id, status |-> "not_found",
                            file_size |-> None, s3_key |-> s3_object_key ], 404)
             ELSE IF "Message" \notin DOMAIN Error THEN unhandled_exception
             ELSE errorhandler(500, << "Error checking S3 object: ", Error.Message >>)
    ELSE errorhandler(500, << "An unexpected server error occurred during validation." >>)

\* validate_upload from the storage call on.
validate_upload_result(transcription_id, s3_object_key, outcome) ==
    IF outcome.kind = "ok"
    THEN jsonify([ transcription_id |-> transcription_id, status |-> "uploaded",
                   file_size |-> file_size_mb(outcome.ContentLength),
                   s3_key |-> s3_object_key ], 200)
    ELSE IF outcome.kind = "ClientError"
    THEN LET Error == outcome.response.Error
         IN  IF "Code" \notin DOMAIN Error THEN unhandled_exception   \* KeyError in the except clause
             ELSE IF Error.Code = "404" \/ Error.Code = "NoSuchKey"
             THEN jsonify([ transcription_id |-> transcription_id, status |-> "not_found",
                            file_size |-> None, s3_key |-> s3_object_key ], 404)
             ELSE IF "Message" \notin DOMAIN Error THEN unhandled_exception
             ELSE errorhandler(500, << "Error checking S3 object: ", Error.Message >>)
    ELSE errorhandler(500, << "An unexpected server error occurred during validation." >>)

\* get_transcription without its `except json.JSONDecodeError` and
\* `except Exception` clauses.
get_transcription_result_uncaught(transcription_id, s3_object_key, outcome) ==
    IF outcome.kind = "ok"
    THEN LET transcription_content == decode_utf8(outcome.Body)
         IN  IF transcription_content = DecodeError THEN unhandled_exception
             ELSE LET parsed == json_loads(transcription_content)
                  IN  IF ~parsed.ok THEN unhandled_exception
                      ELSE jsonify([ document |-> parsed.data ], 200)
    ELSE IF outcome.kind = "ClientError"
    THEN LET Error == outcome.response.Error
         IN  IF "Code" \notin DOMAIN Error THEN unhandled_exception
             ELSE IF Error.Code = "NoSuchKey"
             THEN jsonify([ transcription_id |-> transcription_id,
                            status |-> "processing or not found",
                            message |-> "Transcription result not available yet or does not exist.",
                            s3_key |-> s3_object_key ], 404)
             ELSE IF "Message" \notin DOMAIN Error THEN unhandled_exception
             ELSE errorhandler(500, << "Error retrieving transcription from S3: ", Error.Message >>)
    ELSE unhandled_exception

\* get_transcription from the storage call on.
get_transcription_result(transcription_id, s3_object_key, outcome) ==
    IF outcome.kind = "ok"
    THEN LET transcription_content == decode_utf8(outcome.Body)
         IN  IF transcription_content = DecodeError
             THEN errorhandler(500, << "An unexpected server error occurred while retrieving transcription." >>)
             ELSE LET parsed == json_loads(transcription_content)
                  IN  IF ~parsed.ok
                      THEN errorhandler(500, << "Transcription file found but contains invalid JSON." >>)
                      ELSE jsonify([ document |-> parsed.data ], 200)
    ELSE IF outcome.kind = "ClientError"
    THEN LET Error == outcome.response.Error
         IN  IF "Code" \notin DOMAIN Error THEN unhandled_exception
             ELSE IF Error.Code = "NoSuchKey"
             THEN jsonify([ transcription_id |-> transcription_id,
                            status |-> "processing or not found",
                            message |-> "Transcription result not available yet or does not exist.",
                            s3_key |-> s3_object_key ], 404)
             ELSE IF "Message" \notin DOMAIN Error THEN unhandled_exception
             ELSE errorhandler(500, << "Error retrieving transcription from S3: ", Error.Message >>)
    ELSE errorhandler(500, << "An unexpected server error occurred while retrieving transcription." >>)

\* health_check
health_check_result ==
    jsonify([ status |-> "ok", message |-> "Audio Transcription API is running." ], 200)

----------------------------------------------------------------------------
(* Inputs *)

\* Authorization header values a client may send (None: no header).
Authorizations ==
    { None,
      USER1_API_KEY,
      Bearer \o USER1_API_KEY,
      Bearer \o USER2_API_KEY,
      Bearer \o <<"x">>,
      Bearer \o USER1_API_KEY \o Bearer \o <<"x">> }

\* <transcription_id> of /v1/transcriptions/<transcription_id>
PathIds == { uuid_a }

\* ?username= and ?transcription_id= of /v1/uploads/validate (None: absent, empty: ?transcription_id=)
ArgUsernames == { None, user1, user2 }
ArgIds == { << >>, uuid_a, <<".",".","/","u","s","e","r","2","/","a","1">> }

NoArgs == [ username |-> None, transcription_id |-> None ]

\* Sizes of the audio a client uploads, and contents a producer writes:
\* "[1,2]", the truncated "[1," and a byte string that is not UTF-8.
Sizes == { 0, 1024 * 1024 }
Bodies == { <<91,49,44,50,93>>, <<91,49,44>>, <<255>> }

----------------------------------------------------------------------------
(* The state machine *)

Init ==
    /\ API_KEYS = API_KEYS_startup
    /\ store = << >>
    /\ presigned = {}
    /\ pc = [ r \in Slots |-> "idle" ]
    /\ request = [ r \in Slots |-> [ route |-> "none", Authorization |-> None,
                                     transcription_id |-> None, args |-> NoArgs ] ]
    /\ authenticated_username = [ r \in Slots |-> None ]
    /\ response = [ r \in Slots |-> NoResponse ]
    /\ s3_calls = [ r \in Slots |-> << >> ]
    /\ served = 0

\* The request ends with response resp after the storage calls `calls`.
Respond(r, resp, calls) ==
    /\ pc' = [ pc EXCEPT ![r] = "done" ]
    /\ response' = [ response EXCEPT ![r] = resp ]
    /\ s3_calls' = [ s3_calls EXCEPT ![r] = s3_calls[r] \o calls ]

\* A request arrives and is routed.
Receive(r) ==
    /\ pc[r] = "idle"
    /\ served < MaxRequests
    /\ \E hdr \in Authorizations :
          \/ \E route \in { "health", "presign", "validate" } :
                request' = [ request EXCEPT ![r] =
                    [ route |-> route, Authorization |-> hdr,
                      transcription_id |-> None, args |-> NoArgs ] ]
          \/ \E id \in PathIds :
                request' = [ request EXCEPT ![r] =
                    [ route |-> "get", Authorization |-> hdr,
                      transcription_id |-> id, args |-> NoArgs ] ]
    /\ pc' = [ pc EXCEPT ![r] = "received" ]
    /\ served' = served + 1
    /\ UNCHANGED << API_KEYS, store, presigned, authenticated_username, response, s3_calls >>

\* Every route decorated, the health check too.
Protected_all(route) == TRUE

\* The routes decorated with @require_api_key.
Protected(route) == route \in { "presign", "validate", "get" }

\* require_api_key's decorated_function, on the routes it wraps.
Authenticate(r) ==
    /\ pc[r] = "received"
    /\ Protected(request[r].route)
    /\ LET auth == require_api_key(request[r].Authorization, API_KEYS)
       IN  IF auth.ok
           THEN /\ authenticated_username' = [ authenticated_username EXCEPT ![r] = auth.username ]
                /\ pc' = [ pc EXCEPT ![r] = "authed" ]
                /\ UNCHANGED << response, s3_calls >>
           ELSE /\ Respond(r, errorhandler(401, auth.description), << >>)
                /\ UNCHANGED authenticated_username
    /\ UNCHANGED << API_KEYS, store, presigned, request, served >>

\* GET /
health_check(r) ==
    /\ pc[r] = "received"
    /\ request[r].route = "health"
    /\ Respond(r, health_check_result, << >>)
    /\ UNCHANGED << API_KEYS, store, presigned, request, authenticated_username, served >>

\* generate_presigned_url creating an empty object at the key it presigns.
generate_presigned_url_put(r) ==
    /\ pc[r] = "authed"
    /\ request[r].route = "presign"
    /\ \E transcription_id \in UUIDs :
          LET s3_object_key == UploadKey(authenticated_username[r], transcription_id)
          IN  \E outcome \in s3_generate_presigned_url(s3_object_key) :
                /\ Respond(r, presigned_url_result(transcription_id, outcome),
                           s3_call("generate_presigned_url", s3_object_key, outcome))
                /\ presigned' = IF outcome.kind = "ok"
                                THEN presigned \cup { outcome.url }
                                ELSE presigned
                /\ store' = (s3_object_key :> [ ContentLength |-> 0, Body |-> << >> ]) @@ store
    /\ UNCHANGED << API_KEYS, request, authenticated_username, served >>

\* POST /v1/uploads/presigned-url
generate_presigned_url(r) ==
    /\ pc[r] = "authed"
    /\ request[r].route = "presign"
    /\ LET username == authenticated_username[r]
       IN  IF Falsy(username)
           THEN /\ Respond(r, errorhandler(401, << "Authentication failed." >>), << >>)
                /\ UNCHANGED presigned
           ELSE \E transcription_id \in UUIDs :
                  LET s3_object_key == UploadKey(username, transcription_id)
                  IN  \E outcome \in s3_generate_presigned_url(s3_object_key) :
                        /\ Respond(r, presigned_url_result(transcription_id, outcome),
                                   s3_call("generate_presigned_url", s3_object_key, outcome))
                        /\ presigned' = IF outcome.kind = "ok"
                                        THEN presigned \cup { outcome.url }
                                        ELSE presigned
    /\ UNCHANGED << API_KEYS, store, request, authenticated_username, served >>

\* GET /v1/uploads/validate.  The query string is fixed at the point the
\* handler reads it with request.args.get.
validate_upload(r) ==
    /\ pc[r] = "authed"
    /\ request[r].route = "validate"
    /\ \E username \in ArgUsernames, transcription_id \in ArgIds :
          /\ request' = [ request EXCEPT ![r].args =
                            [ username |-> username, transcription_id |-> transcription_id ] ]
          /\ LET aborted == validate_upload_checks(username, transcription_id,
                                                   authenticated_username[r])
             IN  IF aborted = 400
                 THEN Respond(r, errorhandler(400,
                         << "Missing required query parameters: username, transcription_id." >>), << >>)
                 ELSE IF aborted = 403
                 THEN Respond(r, errorhandler(403,
                         << "Provided username does not match authenticated API key." >>), << >>)
                 ELSE LET s3_object_key == UploadKey(username, transcription_id)
                      IN  \E outcome \in head_object(store, s3_object_key) :
                            Respond(r, validate_upload_result(transcription_id, s3_object_key, outcome),
                                    s3_call("head_object", s3_object_key, outcome))
    /\ UNCHANGED << API_KEYS, store, presigned, authenticated_username, served >>

\* GET /v1/transcriptions/<transcription_id>
get_transcription(r) ==
    /\ pc[r] = "authed"
    /\ request[r].route = "get"
    /\ LET username == authenticated_username[r]
           transcription_id == request[r].transcription_id
       IN  IF Falsy(username)
           THEN Respond(r, errorhandler(401, << "Authentication failed." >>), << >>)
           ELSE LET s3_object_key == TranscriptKey(username, transcription_id)
                IN  \E outcome \in get_object(store, s3_object_key) :
                      Respond(r, get_transcription_result(transcription_id, s3_object_key, outcome),
                              s3_call("get_object", s3_object_key, outcome))
    /\ UNCHANGED << API_KEYS, store, presigned, request, authenticated_username, served >>

\* The response is sent and the request context is torn down.
Finish(r) ==
    /\ pc[r] = "done"
    /\ pc' = [ pc EXCEPT ![r] = "idle" ]
    /\ request' = [ request EXCEPT ![r] = [ route |-> "none", Authorization |-> None,
                                            transcription_id |-> None, args |-> NoArgs ] ]
    /\ authenticated_username' = [ authenticated_username EXCEPT ![r] = None ]
    /\ response' = [ response EXCEPT ![r] = NoResponse ]
    /\ s3_calls' = [ s3_calls EXCEPT ![r] = << >> ]
    /\ UNCHANGED << API_KEYS, store, presigned, served >>

\* Outside the gateway: a client PUTs the audio of a job, once, to the
\* presigned URL it was given.
ClientUpload ==
    /\ \E url \in presigned, n \in Sizes :
          /\ url.Key \notin DOMAIN store
          /\ store' = (url.Key :> [ ContentLength |-> n, Body |-> << >> ]) @@ store
    /\ UNCHANGED << API_KEYS, presigned, pc, request, authenticated_username,
                    response, s3_calls, served >>

\* Outside the gateway: the transcription producer writes the result object
\* of an uploaded, non-empty audio, at some time after the upload.
ProducerWrite ==
    /\ \E u \in Identities, id \in UUIDs, b \in Bodies :
          /\ UploadKey(u, id) \in DOMAIN store
          /\ store[UploadKey(u, id)].ContentLength > 0
          /\ store' = (TranscriptKey(u, id) :> [ ContentLength |-> Len(b), Body |-> b ]) @@ store
    /\ UNCHANGED << API_KEYS, presigned, pc, request, authenticated_username,
                    response, s3_calls, served >>

Next ==
    \/ \E r \in Slots : Receive(r)
    \/ \E r \in Slots : Authenticate(r)
    \/ \E r \in Slots : health_check(r)
    \/ \E r \in Slots : generate_presigned_url(r)
    \/ \E r \in Slots : validate_upload(r)
    \/ \E r \in Slots : get_transcription(r)
    \/ \E r \in Slots : Finish(r)
    \/ ClientUpload
    \/ ProducerWrite

Spec == Init /\ [][Next]_vars

----------------------------------------------------------------------------
(* Properties *)

Done(r) == pc[r] = "done"

\* The storage outcome that says the object is absent, for the status check
\* and for the fetch.
HeadAbsent(o) ==
    /\ o.kind = "ClientError"
    /\ "Code" \in DOMAIN o.response.Error
    /\ o.response.Error.Code \in { "404", "NoSuchKey" }
GetAbsent(o) ==
    /\ o.kind = "ClientError"
    /\ "Code" \in DOMAIN o.response.Error
    /\ o.response.Error.Code = "NoSuchKey"

\* The request passed the gate and validate_upload's own checks.
ValidatePassed(r) ==
    /\ Done(r)
    /\ request[r].route = "validate"
    /\ authenticated_username[r] # None
    /\ ~Falsy(request[r].args.username)
    /\ ~Falsy(request[r].args.transcription_id)
    /\ request[r].args.username = authenticated_username[r]

\* An authenticated validate request whose username parameter is present and
\* is not the identity of its token.
ValidateMismatch(r) ==
    /\ Done(r)
    /\ request[r].route = "validate"
    /\ authenticated_username[r] # None
    /\ request[r].args.username # None
    /\ request[r].args.username # authenticated_username[r]

\* C1: a header 'Authorization: Bearer T' with T a key of the table
\* authenticates the request as the identity bound to T, and every other
\* header value (none, no 'Bearer ' prefix, a token that is no key) ends the
\* request with 401.
C1_HeaderDecidesIdentity ==
    \A r \in Slots :
        (pc[r] \in { "authed", "done" } /\ Protected(request[r].route)) =>
            LET keys == { T \in DOMAIN API_KEYS : request[r].Authorization = Bearer \o T }
            IN  IF keys # {}
                THEN /\ \A T \in keys : authenticated_username[r] = API_KEYS[T]
                     /\ ~(Done(r) /\ response[r].status = 401)
                ELSE /\ Done(r)
                     /\ response[r].status = 401
                     /\ authenticated_username[r] = None

C3_ProbeOutcomeDecidesResponse ==
    \A r \in Slots :
        ValidatePassed(r) =>
            /\ Len(s3_calls[r]) = 1
            /\ s3_calls[r][1].op = "head_object"
            /\ s3_calls[r][1].Key =
                  UploadKey(request[r].args.username, request[r].args.transcription_id)
            /\ LET o == s3_calls[r][1].outcome
               IN  IF o.kind = "ok"
                   THEN /\ s3_calls[r][1].Key \in DOMAIN store
                        /\ response[r].status = 200
                        /\ response[r].body.status = "uploaded"
                   ELSE IF HeadAbsent(o)
                   THEN /\ response[r].status = 404
                        /\ ~response[r].unhandled
                        /\ "error" \notin DOMAIN response[r].body
                        /\ response[r].body.status = "not_found"
                        /\ response[r].body.file_size = None
                   ELSE response[r].status = 500

\* C3: the probe found no object (code '404') and the answer is the
\* structured not-found body.
C3_Witness ==
    \E r \in Slots :
        /\ ValidatePassed(r)
        /\ Len(s3_calls[r]) = 1
        /\ HeadAbsent(s3_calls[r][1].outcome)
        /\ s3_calls[r][1].outcome.response.Error.Code = "404"
        /\ response[r].status = 404

C6_NoFailureEscapes ==
    \A r \in Slots :
        Done(r) =>
            /\ response[r].status \in { 200, 400, 401, 403, 404, 500 }
            /\ ~response[r].unhandled
            /\ \/ response[r].status = 200
               \/ "error" \in DOMAIN response[r].body
               \/ response[r].status = 404 /\ "status" \in DOMAIN response[r].body

\* The storage operation of a route.
OpOf(route) ==
    IF route = "presign" THEN "generate_presigned_url"
    ELSE IF route = "validate" THEN "head_object"
    ELSE "get_object"

\* C7: a request makes no storage call before it is through the gate and the
\* handler's checks; one answered 400, 401 or 403, and a health check, made
\* none; every other finished request made exactly one call, the one of its
\* route, also when the call failed.
C7_OneStorageCallPerRequest ==
    \A r \in Slots :
        /\ ~Done(r) => s3_calls[r] = << >>
        /\ Done(r) =>
              IF ~Protected(request[r].route) \/ response[r].status \in { 400, 401, 403 }
              THEN s3_calls[r] = << >>
              ELSE /\ Len(s3_calls[r]) = 1
                   /\ s3_calls[r][1].op = OpOf(request[r].route)

\* C7: a request whose one storage call failed, answered 500.
C7_Witness ==
    \E r \in Slots :
        /\ Done(r)
        /\ response[r].status = 500
        /\ Len(s3_calls[r]) = 1
        /\ s3_calls[r][1].outcome.kind # "ok"

\* C8: GET / is answered 200 with the fixed body, whatever the Authorization
\* header and the bucket; it never goes through the gate and makes no
\* storage call.
C8_HealthCheckAlwaysOk ==
    \A r \in Slots :
        request[r].route = "health" =>
            /\ pc[r] \in { "received", "done" }
            /\ authenticated_username[r] = None
            /\ s3_calls[r] = << >>
            /\ Done(r) =>
                  /\ response[r].status = 200
                  /\ ~response[r].unhandled
                  /\ response[r].body =
                        [ status |-> "ok", message |-> "Audio Transcription API is running." ]

\* C8: a health check carrying a token that is no key, answered 200.
C8_Witness ==
    \E r \in Slots :
        /\ Done(r)
        /\ request[r].route = "health"
        /\ request[r].Authorization = Bearer \o <<"x">>
        /\ response[r].status = 200

\* C9: the table is the one built at startup, and no step of a request
\* (arrival, gate, handler, end) changes the bucket or the table: the bucket
\* changes only in steps of the client and the producer.
C9_HandlersWriteNothing ==
    /\ [](API_KEYS = API_KEYS_startup)
    /\ [][ pc' # pc => (store' = store /\ API_KEYS' = API_KEYS) ]_vars

\* C9: a handler has read an object that a client and the producer put in
\* the bucket.
C9_Witness ==
    \E r \in Slots :
        /\ Done(r)
        /\ Len(s3_calls[r]) = 1
        /\ s3_calls[r][1].op = "get_object"
        /\ s3_calls[r][1].outcome.kind = "ok"
        /\ s3_calls[r][1].Key \in DOMAIN store

\* The first path segments of a key: "uploads/<identity>/" for a presign or
\* a probe, "transcriptions/<identity>/" for a read.
Segment(op, identity) ==
    ( IF op = "get_object"
      THEN <<"t","r","a","n","s","c","r","i","p","t","i","o","n","s","/">>
      ELSE <<"u","p","l","o","a","d","s","/">> ) \o identity \o <<"/">>

\* C10: every key a request passes to a storage call starts with
\* '<purpose>/<I>/', I being the identity the gate attached to that request,
\* which is the identity of the key its Authorization header presents; the
\* key lies under no other identity's segment.
C10_KeysUnderOwnIdentity ==
    \A r \in Slots :
        \A i \in 1..Len(s3_calls[r]) :
            LET I == authenticated_username[r]
                call == s3_calls[r][i]
            IN  /\ I \in Identities
                /\ \E T \in DOMAIN API_KEYS :
                      API_KEYS[T] = I /\ startswith(request[r].Authorization, Bearer \o T)
                /\ startswith(call.Key, Segment(call.op, I))
                /\ \A J \in Identities \ { I } : ~startswith(call.Key, Segment(call.op, J))

\* C10: a request of user1 probed a key built from a transcription_id that
\* names user2's segment, while a request of user2 is in progress.
C10_Witness ==
    \E r1, r2 \in Slots :
        /\ r1 # r2
        /\ authenticated_username[r1] = user1
        /\ authenticated_username[r2] = user2
        /\ request[r1].args.transcription_id = <<".",".","/","u","s","e","r","2","/","a","1">>
        /\ Len(s3_calls[r1]) = 1

====
